---- MODULE Spec2Model ----
(***************************************************************************)
(* One run of a DOGE Savings dashboard script, in its three dialects:      *)
(*   "legacy"  src/pages/01_DOGE Contract Savings.py                       *)
(*   "export"  src/pages/01_DOGE_Contract_Savings.py                       *)
(*   "grants"  src/pages/02_DOGE Grants Savings.py                         *)
(* The run loads the records, applies the sidebar filters, computes the    *)
(* key metrics, renders the four charts and then builds the PDF report     *)
(* with a global cursor and page counter.  The record set is abstracted to *)
(* what the control flow reads of it: whether it is empty, whether the     *)
(* agency, vendor and date groupings are empty, and the number of groups   *)
(* of each ranked table.  A table row's text is a single line.             *)
(***************************************************************************)
EXTENDS Integers, Sequences, FiniteSets

\* ---------------------------------------------------------------- bounds

\* The largest number of groups (agencies, normalized vendors) of a table.
MaxGroups == 80

\* ------------------------------------------------------ program constants

\* reportlab LETTER is 612 x 792 points: width, height = LETTER
height == 792
margin == 50
line_height == 16
\* draw_title: cursor -= 30
title_drop == 30
\* draw_divider: cursor -= 10
divider_drop == 10
\* the summary page: cursor -= 10 between the two blocks
summary_gap == 10
\* legacy table loops: if cursor < 100
overflow_threshold == 100
\* export and grants tables: .head(20)
TopN == 20
\* chart page bullets: cursor -= 14
insight_step == 14
\* export chart page: cursor = height / 2 - 150
export_insight_drop == 150
\* grants chart page: img_y = height - 450, cursor = img_y - 40
grants_img_drop == 450
grants_insight_drop == 40

Dialects == {"legacy", "export", "grants"}

Min(a, b) == IF a < b THEN a ELSE b

\* ------------------------------------------------------------ the program

\* One statement of the PDF part of the script: what it does, the section it
\* belongs to, and its size (lines of a paragraph, points of a gap).
I(op, sec, n) == [op |-> op, sec |-> sec, n |-> n]

RepeatI(ins, k) == [i \in 1..k |-> ins]

CoverSec ==
    << I("cover", "cover", 0), I("footer", "cover", 0), I("showPage", "cover", 0) >>

\* items: the number of two-line findings of the BLUF page.
BlufSec(items) ==
    << I("reset", "bluf", 0), I("title", "bluf", 0), I("divider", "bluf", 0) >>
    \o RepeatI(I("item", "bluf", 0), items)
    \o << I("footer", "bluf", 0), I("showPage", "bluf", 0) >>

TocSec(lines) ==
    << I("reset", "toc", 0), I("title", "toc", 0), I("para", "toc", lines),
       I("footer", "toc", 0), I("showPage", "toc", 0) >>

SummarySec(intro, metrics) ==
    << I("reset", "summary", 0), I("title", "summary", 0),
       I("para", "summary", intro), I("gap", "summary", summary_gap),
       I("title", "summary", 0), I("para", "summary", metrics),
       I("footer", "summary", 0), I("showPage", "summary", 0) >>

InsightsSec(lines) ==
    << I("reset", "insights", 0), I("title", "insights", 0),
       I("divider", "insights", 0), I("para", "insights", lines),
       I("footer", "insights", 0), I("showPage", "insights", 0) >>

TableSec(sec) ==
    << I("reset", sec, 0), I("title", sec, 0), I("divider", sec, 0),
       I("table", sec, 0), I("footer", sec, 0), I("showPage", sec, 0) >>

ChartsSec == << I("charts", "charts", 0) >>

SaveSec == << I("save", "save", 0) >>

\* A plausible slip: the chart pages emitted before the ranked tables.
ProgramChartsFirst(d) ==
    IF d = "legacy"
    THEN CoverSec \o TocSec(5) \o SummarySec(2, 5) \o InsightsSec(4)
         \o ChartsSec \o TableSec("agencies") \o TableSec("vendors") \o SaveSec
    ELSE IF d = "export"
    THEN CoverSec \o BlufSec(5) \o TocSec(6) \o SummarySec(2, 5) \o InsightsSec(4)
         \o ChartsSec \o TableSec("agencies") \o TableSec("vendors") \o SaveSec
    ELSE CoverSec \o BlufSec(4) \o TocSec(5) \o SummarySec(1, 4) \o InsightsSec(3)
         \o ChartsSec \o TableSec("agencies") \o SaveSec

\* The PDF part of each script, statement by statement.
Program(d) ==
    IF d = "legacy"
    THEN CoverSec \o TocSec(5) \o SummarySec(2, 5) \o InsightsSec(4)
         \o TableSec("agencies") \o TableSec("vendors") \o ChartsSec \o SaveSec
    ELSE IF d = "export"
    THEN CoverSec \o BlufSec(5) \o TocSec(6) \o SummarySec(2, 5) \o InsightsSec(4)
         \o TableSec("agencies") \o TableSec("vendors") \o ChartsSec \o SaveSec
    ELSE CoverSec \o BlufSec(4) \o TocSec(5) \o SummarySec(1, 4) \o InsightsSec(3)
         \o TableSec("agencies") \o ChartsSec \o SaveSec

\* The charts each script renders, in the order it renders them.
ChartKeys(d) ==
    IF d = "grants"
    THEN << "top_agencies", "avg_savings", "monthly_trend", "weekday" >>
    ELSE << "top_agencies", "top_vendors", "monthly_savings", "weekday" >>

\* chart_titles of the chart page loop (legacy: the titles of chart_paths).
chart_titles(d) == { ChartKeys(d)[i] : i \in 1..Len(ChartKeys(d)) }

\* ------------------------------------------------------------------ state

VARIABLES
    dialect,        \* which script runs
    pc,             \* "load", "filter", "metrics", "render", "pdf", and the ends
                    \* "stopped" (st.stop), "crashed" (uncaught exception), "done"
    crash,          \* the statement that raised, "" while none did
    df,             \* the record set: empty, and which groupings have a key
    export_charts,  \* the sidebar checkbox
    chart_images,   \* the keys of the chart images held, in insertion order
    ci,             \* index of the chart being rendered or drawn
    ip,             \* index of the next statement of Program(dialect)
    rowsLeft,       \* rows a table loop still has to write, -1 outside a loop
    table_len,      \* rows of each ranked table, once computed
    cursor,         \* global cursor
    page_number,    \* global page_number
    page,           \* what was drawn on the open page
    pages,          \* the pages closed by showPage, in order
    evaluated,      \* the idxmax aggregates evaluated so far
    call,           \* the helper function under way when one is run on its
                    \* own, "" while a script runs
    arg,            \* its argument
    ret,            \* what it returned, or the exception it raised
    vendors,        \* build_vendor_clusters: the raw names given
    vi,             \* build_vendor_clusters: index of the next raw name
    canonical_names,\* build_vendor_clusters: canonical_names
    name_mapping    \* build_vendor_clusters: name_mapping, as the set of its
                    \* << key, value >> pairs

\* The variables of a script's run.
rvars == << dialect, pc, crash, df, export_charts, chart_images, ci, ip, rowsLeft,
            table_len, cursor, page_number, page, pages, evaluated >>

\* The variables of the helper functions of the scripts, run on their own.
uvars == << call, arg, ret, vendors, vi, canonical_names, name_mapping >>

vars == << rvars, uvars >>

\* ------------------------------------------------------------------ pages

\* A page with nothing drawn on it.  secs: the sections that drew on it;
\* writes: content drawn at the cursor (titles, dividers, lines, rows);
\* first, firstY: kind and position of the first of them; low: the lowest
\* position of any of them; stamps: the page numbers the footer stamped;
\* chart: the key of the chart image placed on it.
BlankPage ==
    [secs |-> {}, titles |-> 0, rows |-> 0, writes |-> 0, first |-> "none",
     firstY |-> 0, low |-> height, stamps |-> << >>, chart |-> ""]

\* c.drawString(margin, cursor, ...) / c.line(margin, cursor, ...): content
\* of kind k drawn at the cursor position y.
Write(p, sec, k, y) ==
    [p EXCEPT !.secs = @ \cup {sec},
              !.titles = IF k = "title" THEN @ + 1 ELSE @,
              !.rows = IF k = "row" THEN @ + 1 ELSE @,
              !.writes = @ + 1,
              !.first = IF p.writes = 0 THEN k ELSE @,
              !.firstY = IF p.writes = 0 THEN y ELSE @,
              !.low = Min(@, y)]

\* A draw at a fixed position of the page (cover text, chart title, caption).
Fixed(p, sec) == [p EXCEPT !.secs = @ \cup {sec}]

\* c.drawImage(image, ...) of the chart page of key.
PlaceImage(p, sec, key) == [p EXCEPT !.secs = @ \cup {sec}, !.chart = key]

\* ---------------------------------------------------------- layout engine

\* reset_cursor: cursor = height - margin
reset_cursor == height - margin

\* draw_paragraph: one drawString per line, cursor -= line_height after each.
RECURSIVE draw_paragraph(_, _, _, _, _)
draw_paragraph(p, sec, k, cur, n) ==
    IF n = 0 THEN [page |-> p, cursor |-> cur]
    ELSE draw_paragraph(Write(p, sec, k, cur), sec, k, cur - line_height, n - 1)

\* A slip in draw_footer: page_number is not advanced.
NextPageNumberStuck(n) == n

\* draw_footer: page_number += 1
NextPageNumber(n) == n + 1

\* draw_footer: the footer text and "Page {page_number}" at y = 20.
StampFooter(p, sec, n) == [p EXCEPT !.secs = @ \cup {sec}, !.stamps = Append(@, n)]

\* A slip in the row loop: the overflow test is never true.
RowOverflowNever(d, cur) == FALSE

\* A slip in the row loop: the cursor is tested against the bottom margin.
RowOverflowAtMargin(d, cur) == d = "legacy" /\ cur < margin

\* The legacy row loops: if cursor < 100, after the row was written.  The
\* export and grants loops have no such test.
RowOverflow(d, cur) == d = "legacy" /\ cur < overflow_threshold

\* The rows of a ranked table over g groups: all of them (legacy), or .head(20).
TableRows(d, g) == IF d = "legacy" THEN g ELSE Min(g, TopN)

\* A slip in the chart loop: a page for every chart title, image or not.
ChartLoopKeysAll(d, images) == ChartKeys(d)

\* The keys the chart page loop draws: chart_paths (legacy), or the keys of
\* chart_images that are chart titles, in insertion order.
ChartLoopKeys(d, images) ==
    IF d = "legacy" THEN ChartKeys(d)
    ELSE SelectSeq(images, LAMBDA k : k \in chart_titles(d))

\* Where the chart page's bullets start.
InsightStart(d) ==
    IF d = "grants" THEN height - grants_img_drop - grants_insight_drop
    ELSE (height \div 2) - export_insight_drop

\* ------------------------------------------------------------------- Init

\* No helper function runs on its own while a script runs.
NoCall ==
    /\ call = ""
    /\ arg = << >>
    /\ ret = << >>
    /\ vendors = << >>
    /\ vi = 1
    /\ canonical_names = << >>
    /\ name_mapping = {}

NoFrame == [empty |-> TRUE, agency |-> FALSE, vendor |-> FALSE, date |-> FALSE]

Init ==
    /\ dialect \in Dialects
    /\ pc = "load"
    /\ crash = ""
    /\ df = NoFrame
    /\ export_charts = FALSE
    /\ chart_images = << >>
    /\ ci = 1
    /\ ip = 1
    /\ rowsLeft = -1
    /\ table_len = [s \in {"agencies", "vendors"} |-> 0]
    /\ cursor = height - margin
    /\ page_number = 1
    /\ page = BlankPage
    /\ pages = << >>
    /\ evaluated = {}
    /\ NoCall

\* ------------------------------------------------- load, filter, metrics

\* get_contract_savings / get_grant_savings.  With no record fetched the
\* frame has no column and df["deleted_date"] (grants: df["date"]) raises.
Load ==
    /\ pc = "load"
    /\ \E fetched \in BOOLEAN :
          IF fetched
          THEN pc' = "filter" /\ crash' = crash
          ELSE pc' = "crashed" /\ crash' = "load"
    /\ UNCHANGED << dialect, df, export_charts, chart_images, ci, ip, rowsLeft,
                    table_len, cursor, page_number, page, pages, evaluated >>
    /\ UNCHANGED uvars

\* The frames the sidebar filters can leave.  The contract scripts filter by
\* agency and by vendor, which together can leave no row; the grants script
\* filters by agency alone, which always leaves the rows of the agencies
\* chosen, and has no vendor column.
Frames(d) ==
    { [empty |-> FALSE, agency |-> a, vendor |-> v, date |-> t] :
        a \in BOOLEAN, v \in (IF d = "grants" THEN {FALSE} ELSE BOOLEAN),
        t \in BOOLEAN }
    \cup (IF d = "grants" THEN {} ELSE {NoFrame})

\* A slip: the empty frame is not stopped.
StopsOnEmptyNever(d, f) == FALSE

\* if df.empty: st.warning(...); st.stop()  -- the contract scripts only.
StopsOnEmpty(d, f) == d # "grants" /\ f.empty

\* The sidebar: the filters applied, the export checkbox read, then the
\* empty test.
Filter ==
    /\ pc = "filter"
    /\ \E f \in Frames(dialect),
          x \in (IF dialect = "legacy" THEN {FALSE} ELSE BOOLEAN) :
          /\ df' = f
          /\ export_charts' = x
          /\ pc' = IF StopsOnEmpty(dialect, f) THEN "stopped" ELSE "metrics"
    /\ UNCHANGED << dialect, crash, chart_images, ci, ip, rowsLeft, table_len,
                    cursor, page_number, page, pages, evaluated >>
    /\ UNCHANGED uvars

\* The idxmax aggregates of the metrics block, in the order evaluated.
MetricSeq(d) ==
    IF d = "grants" THEN << "top_agency", "weekday" >>
    ELSE << "top_agency", "top_vendor", "weekday" >>

\* Whether the grouping a metric takes idxmax of has a key: groupby drops
\* the records whose key is null, and idxmax of an empty Series raises.
HasKey(f, m) ==
    IF m = "top_agency" THEN f.agency
    ELSE IF m = "top_vendor" THEN f.vendor
    ELSE f.date

\* The first metric of the block that raises, 0 when none does.
FirstRaising(d, f) ==
    LET bad == { i \in 1..Len(MetricSeq(d)) : ~HasKey(f, MetricSeq(d)[i]) }
    IN  IF bad = {} THEN 0 ELSE CHOOSE i \in bad : \A j \in bad : i <= j

\* total_savings, total_contracts, top_agency, top_vendor, most_common_weekday
Metrics ==
    /\ pc = "metrics"
    /\ LET k == FirstRaising(dialect, df)
           m == MetricSeq(dialect)
       IN  IF k = 0
           THEN /\ pc' = "render"
                /\ crash' = crash
                /\ evaluated' = { m[i] : i \in 1..Len(m) }
           ELSE /\ pc' = "crashed"
                /\ crash' = m[k]
                /\ evaluated' = { m[i] : i \in 1..k }
    /\ UNCHANGED << dialect, df, export_charts, chart_images, ci, ip, rowsLeft,
                    table_len, cursor, page_number, page, pages >>
    /\ UNCHANGED uvars

\* ----------------------------------------------------------------- charts

\* Whether the script writes the chart to an image: always (legacy,
\* pio.write_image), or when the checkbox is set.
WritesImage(d, x) == d = "legacy" \/ x

\* render_and_export_chart of the export script wraps fig.write_image in
\* try/except; the grants script and the legacy script do not.
CatchesExportError(d) == d = "export"

\* One chart rendered: ok is whether the external renderer produced the image.
RenderChart ==
    /\ pc = "render"
    /\ \E ok \in BOOLEAN :
          LET key == ChartKeys(dialect)[ci]
              w == WritesImage(dialect, export_charts)
          IN  IF w /\ ~ok /\ ~CatchesExportError(dialect)
              THEN /\ pc' = "crashed"
                   /\ crash' = "write_image"
                   /\ UNCHANGED << chart_images, ci >>
              ELSE /\ chart_images' = IF w /\ ok THEN Append(chart_images, key)
                                      ELSE chart_images
                   /\ crash' = crash
                   /\ IF ci = Len(ChartKeys(dialect))
                      THEN pc' = "pdf" /\ ci' = 1
                      ELSE pc' = pc /\ ci' = ci + 1
    /\ UNCHANGED << dialect, df, export_charts, ip, rowsLeft, table_len, cursor,
                    page_number, page, pages, evaluated >>
    /\ UNCHANGED uvars

\* -------------------------------------------------------------- the report

Ins == Program(dialect)[ip]

At(op) == pc = "pdf" /\ Ins.op = op

\* The cover page: three centred strings at fixed positions.
CoverPage ==
    /\ At("cover")
    /\ page' = Fixed(page, Ins.sec)
    /\ ip' = ip + 1
    /\ UNCHANGED << dialect, pc, crash, df, export_charts, chart_images, ci, rowsLeft,
                    table_len, cursor, page_number, pages, evaluated >>
    /\ UNCHANGED uvars

ResetCursor ==
    /\ At("reset")
    /\ cursor' = reset_cursor
    /\ ip' = ip + 1
    /\ UNCHANGED << dialect, pc, crash, df, export_charts, chart_images, ci, rowsLeft,
                    table_len, page_number, page, pages, evaluated >>
    /\ UNCHANGED uvars

DrawTitle ==
    /\ At("title")
    /\ page' = Write(page, Ins.sec, "title", cursor)
    /\ cursor' = cursor - title_drop
    /\ ip' = ip + 1
    /\ UNCHANGED << dialect, pc, crash, df, export_charts, chart_images, ci, rowsLeft,
                    table_len, page_number, pages, evaluated >>
    /\ UNCHANGED uvars

DrawDivider ==
    /\ At("divider")
    /\ page' = Write(page, Ins.sec, "divider", cursor)
    /\ cursor' = cursor - divider_drop
    /\ ip' = ip + 1
    /\ UNCHANGED << dialect, pc, crash, df, export_charts, chart_images, ci, rowsLeft,
                    table_len, page_number, pages, evaluated >>
    /\ UNCHANGED uvars

DrawParagraph ==
    /\ At("para")
    /\ LET r == draw_paragraph(page, Ins.sec, "line", cursor, Ins.n)
       IN  page' = r.page /\ cursor' = r.cursor
    /\ ip' = ip + 1
    /\ UNCHANGED << dialect, pc, crash, df, export_charts, chart_images, ci, rowsLeft,
                    table_len, page_number, pages, evaluated >>
    /\ UNCHANGED uvars

\* cursor -= 10 between the summary and the key metrics.
Gap ==
    /\ At("gap")
    /\ cursor' = cursor - Ins.n
    /\ ip' = ip + 1
    /\ UNCHANGED << dialect, pc, crash, df, export_charts, chart_images, ci, rowsLeft,
                    table_len, page_number, page, pages, evaluated >>
    /\ UNCHANGED uvars

\* One finding of the BLUF page: the bold label, cursor -= line_height, the
\* value, cursor -= 2 * line_height.
BlufItem ==
    /\ At("item")
    /\ page' = Write(Write(page, Ins.sec, "line", cursor),
                     Ins.sec, "line", cursor - line_height)
    /\ cursor' = cursor - line_height - 2 * line_height
    /\ ip' = ip + 1
    /\ UNCHANGED << dialect, pc, crash, df, export_charts, chart_images, ci, rowsLeft,
                    table_len, page_number, pages, evaluated >>
    /\ UNCHANGED uvars

DrawFooter ==
    /\ At("footer")
    /\ page' = StampFooter(page, Ins.sec, page_number)
    /\ page_number' = NextPageNumber(page_number)
    /\ ip' = ip + 1
    /\ UNCHANGED << dialect, pc, crash, df, export_charts, chart_images, ci, rowsLeft,
                    table_len, cursor, pages, evaluated >>
    /\ UNCHANGED uvars

\* c.showPage(): the open page is closed and a blank one opened.
ShowPage ==
    /\ At("showPage")
    /\ pages' = Append(pages, page)
    /\ page' = BlankPage
    /\ ip' = ip + 1
    /\ UNCHANGED << dialect, pc, crash, df, export_charts, chart_images, ci, rowsLeft,
                    table_len, cursor, page_number, evaluated >>
    /\ UNCHANGED uvars

\* The table is computed: groupby(...).sum().sort_values(...), with .head(20)
\* in the export and grants scripts.  The grouping has a key, or the metrics
\* block had raised.
TableStart ==
    /\ At("table")
    /\ rowsLeft = -1
    /\ \E g \in 1..MaxGroups :
          /\ rowsLeft' = TableRows(dialect, g)
          /\ table_len' = [table_len EXCEPT ![Ins.sec] = TableRows(dialect, g)]
    /\ UNCHANGED << dialect, pc, crash, df, export_charts, chart_images, ci, ip,
                    cursor, page_number, page, pages, evaluated >>
    /\ UNCHANGED uvars

\* One iteration of a table loop: the row is written at the cursor and the
\* cursor lowered; the legacy loops then test the cursor and, below the
\* threshold, stamp the footer, close the page and reset the cursor.
TableRow ==
    /\ At("table")
    /\ rowsLeft > 0
    /\ LET written == Write(page, Ins.sec, "row", cursor)
           below == cursor - line_height
       IN  IF RowOverflow(dialect, below)
           THEN /\ pages' = Append(pages, StampFooter(written, Ins.sec, page_number))
                /\ page_number' = NextPageNumber(page_number)
                /\ page' = BlankPage
                /\ cursor' = reset_cursor
           ELSE /\ page' = written
                /\ cursor' = below
                /\ UNCHANGED << pages, page_number >>
    /\ IF rowsLeft = 1
       THEN rowsLeft' = -1 /\ ip' = ip + 1
       ELSE rowsLeft' = rowsLeft - 1 /\ ip' = ip
    /\ UNCHANGED << dialect, pc, crash, df, export_charts, chart_images, ci,
                    table_len, evaluated >>
    /\ UNCHANGED uvars

\* One iteration of the chart page loop: the title, the image and, in the
\* export and grants scripts, the caption and the two bullets; then the
\* footer and showPage.  The legacy loop draws the image file by its path,
\* which raises when the file was not written.
ChartPage ==
    /\ At("charts")
    /\ ci <= Len(ChartLoopKeys(dialect, chart_images))
    /\ LET key == ChartLoopKeys(dialect, chart_images)[ci]
           sec == Ins.sec
           img == PlaceImage(Fixed(page, sec), sec, key)
           start == InsightStart(dialect)
           bullets == Write(Write(Fixed(img, sec), sec, "line", start),
                            sec, "line", start - insight_step)
           drawn == IF dialect = "legacy" THEN img ELSE bullets
           written == { chart_images[i] : i \in 1..Len(chart_images) }
       IN  IF dialect = "legacy" /\ key \notin written
           THEN /\ pc' = "crashed"
                /\ crash' = "drawImage"
                /\ UNCHANGED << ci, cursor, page_number, page, pages >>
           ELSE /\ pages' = Append(pages, StampFooter(drawn, sec, page_number))
                /\ page_number' = NextPageNumber(page_number)
                /\ page' = BlankPage
                /\ cursor' = IF dialect = "legacy" THEN reset_cursor
                             ELSE start - 2 * insight_step
                /\ ci' = ci + 1
                /\ UNCHANGED << pc, crash >>
    /\ UNCHANGED << dialect, df, export_charts, chart_images, ip, rowsLeft,
                    table_len, evaluated >>
    /\ UNCHANGED uvars

\* The chart page loop is exhausted.
ChartsEnd ==
    /\ At("charts")
    /\ ci > Len(ChartLoopKeys(dialect, chart_images))
    /\ ip' = ip + 1
    /\ UNCHANGED << dialect, pc, crash, df, export_charts, chart_images, ci, rowsLeft,
                    table_len, cursor, page_number, page, pages, evaluated >>
    /\ UNCHANGED uvars

\* c.save(): a page with something drawn on it is closed first.
Save ==
    /\ At("save")
    /\ pc' = "done"
    /\ pages' = IF page # BlankPage THEN Append(pages, page) ELSE pages
    /\ page' = BlankPage
    /\ UNCHANGED << dialect, crash, df, export_charts, chart_images, ci, ip, rowsLeft,
                    table_len, cursor, page_number, evaluated >>
    /\ UNCHANGED uvars

Next ==
    \/ Load
    \/ Filter
    \/ Metrics
    \/ RenderChart
    \/ CoverPage
    \/ ResetCursor
    \/ DrawTitle
    \/ DrawDivider
    \/ DrawParagraph
    \/ Gap
    \/ BlufItem
    \/ DrawFooter
    \/ ShowPage
    \/ TableStart
    \/ TableRow
    \/ ChartPage
    \/ ChartsEnd
    \/ Save

Spec == Init /\ [][Next]_vars

\* ------------------------------------------------------ reading the pages

Tables == {"agencies", "vendors"}

\* The closed pages a section drew on, in order.
SecPages(s) == SelectSeq(pages, LAMBDA p : s \in p.secs)

\* The section s has drawn its last page and the script has moved on.
SecClosed(s) ==
    /\ pc \in {"pdf", "done"}
    /\ Len(SecPages(s)) > 0
    /\ s \notin page.secs
    /\ (pc = "pdf" => Ins.sec # s)

\* The number of rows on each closed page of section s.
RowsOf(s) == [i \in 1..Len(SecPages(s)) |-> SecPages(s)[i].rows]

\* The script is about to draw content at the cursor.
AboutToWrite ==
    /\ pc = "pdf"
    /\ \/ Ins.op \in {"title", "divider", "item"}
       \/ Ins.op = "para" /\ Ins.n > 0
       \/ Ins.op = "table" /\ rowsLeft > 0

\* C1: during a build every content write positioned by the cursor (title,
\* divider, paragraph line, table row, bullet) is at or above the bottom
\* margin, on closed pages and on the open one, and whenever the script is
\* about to write at the cursor the cursor is at or above the bottom margin:
\* a write that would land below it has been preceded by a page break.
C1_WritesAboveBottomMargin ==
    /\ \A i \in 1..Len(pages) : pages[i].low >= margin
    /\ page.low >= margin
    /\ AboutToWrite => cursor >= margin

\* A table was broken over two pages and a row written on the second one.
C1_Witness ==
    /\ dialect = "legacy"
    /\ \E i \in 1..Len(pages) : pages[i].secs = {"agencies"} /\ pages[i].rows > 0
    /\ page.secs = {"agencies"}
    /\ page.titles = 0
    /\ page.rows > 0
    /\ page.firstY = reset_cursor

Ceil(n, r) == (n + r - 1) \div r

RowsUntilBreak(start) == ((start - overflow_threshold) \div line_height) + 1

FirstPageRows == RowsUntilBreak(reset_cursor - title_drop - divider_drop)

ContPageRows == RowsUntilBreak(reset_cursor)

\* The rows per page of a table of n rows: one page in the export and grants
\* scripts; in the legacy script the first page takes FirstPageRows, each
\* later page ContPageRows, and the last page the rows left, possibly none.
ExpectedRows(d, n) ==
    IF d # "legacy" \/ n < FirstPageRows THEN << n >>
    ELSE << FirstPageRows >>
         \o [i \in 1..((n - FirstPageRows) \div ContPageRows) |-> ContPageRows]
         \o << (n - FirstPageRows) % ContPageRows >>

C3_PageNumbers ==
    /\ \A k \in 1..Len(pages) : pages[k].stamps = << k >>
    /\ page.stamps \in { << >>, << Len(pages) + 1 >> }
    /\ page_number = Len(pages) + Len(page.stamps) + 1

\* A finished document in which a table was broken over pages.
C3_Witness ==
    /\ pc = "done"
    /\ Len(SecPages("vendors")) >= 2
    /\ Len(SecPages("charts")) >= 1

\* C4: the overflow check runs before a row is written, so no page break
\* follows the last row of a table (the loop ends on a page that holds a
\* row) and no page of a table section is closed holding only a footer.
C4_NoFooterOnlyTablePage ==
    /\ \A i \in 1..Len(pages) :
          pages[i].secs \cap Tables # {} => pages[i].rows >= 1
    /\ (pc = "pdf" /\ Ins.op = "footer" /\ Ins.sec \in Tables) => page.rows >= 1

\* The pages of section s so far, the open one included once s drew on it.
PagesSoFar(s) == SecPages(s) \o (IF s \in page.secs THEN << page >> ELSE << >>)

\* C5: the title of a ranked-table section is drawn once, at the top of the
\* section's first page; every later page of the section starts with a row
\* at the top margin and carries no title.
C5_TitleOnFirstPageOnly ==
    \A s \in Tables :
        \A i \in 1..Len(PagesSoFar(s)) :
            IF i = 1
            THEN /\ PagesSoFar(s)[i].titles = 1
                 /\ PagesSoFar(s)[i].first = "title"
            ELSE /\ PagesSoFar(s)[i].titles = 0
                 /\ PagesSoFar(s)[i].first = "row"
                 /\ PagesSoFar(s)[i].firstY = reset_cursor

\* The place of each section in the fixed order of the report.
SecRank(s) ==
    CASE s = "cover" -> 1
      [] s = "bluf" -> 2
      [] s = "toc" -> 3
      [] s = "summary" -> 4
      [] s = "insights" -> 5
      [] s = "agencies" -> 6
      [] s = "vendors" -> 7
      [] s = "charts" -> 8

\* The closed pages and the open one.
AllPages == pages \o << page >>

\* C6: the sections a build emits come in the fixed order cover, BLUF, table
\* of contents, summary, insights, agency table, vendor table, chart pages:
\* every closed page belongs to exactly one section, no section draws on a
\* page another section drew on, the section ranks never decrease from one
\* page to the next (so no chart page precedes a table page), the first page
\* is the cover, and a finished document holds the sections every script
\* has (cover, contents, summary, insights, agency table).
C6_SectionOrder ==
    /\ \A i \in 1..Len(pages) : Cardinality(pages[i].secs) = 1
    /\ Cardinality(page.secs) <= 1
    /\ \A i, j \in 1..Len(AllPages) :
          i < j =>
            \A a \in AllPages[i].secs, b \in AllPages[j].secs :
                SecRank(a) <= SecRank(b)
    /\ pages # << >> => pages[1].secs = {"cover"}
    /\ pc = "done" =>
          \A s \in {"cover", "toc", "summary", "insights", "agencies"} :
              Len(SecPages(s)) >= 1

\* A finished document that holds all eight sections.
C6_Witness ==
    /\ pc = "done"
    /\ \A s \in {"cover", "bluf", "toc", "summary", "insights", "agencies",
                 "vendors", "charts"} : Len(SecPages(s)) >= 1

\* The pages every build emits before the chart pages: one per section, and
\* in the legacy script as many as its tables take.
FixedPages(d) ==
    IF d = "legacy"
    THEN Cardinality({"cover", "toc", "summary", "insights"})
         + Len(ExpectedRows(d, table_len["agencies"]))
         + Len(ExpectedRows(d, table_len["vendors"]))
    ELSE IF d = "export"
    THEN Cardinality({"cover", "bluf", "toc", "summary", "insights", "agencies",
                      "vendors"})
    ELSE Cardinality({"cover", "bluf", "toc", "summary", "insights", "agencies"})

\* The chart keys of the chart pages, in page order.
ChartPageKeys ==
    [i \in 1..Len(SecPages("charts")) |-> SecPages("charts")[i].chart]

\* C7: the finished document holds one chart page for each image supplied,
\* in the order supplied, and none for a chart whose image is absent; the
\* build of the pages never fails for want of an image, and the page count
\* is the fixed section pages plus the number of images supplied.
C7_ChartPagesAreTheImages ==
    /\ crash # "drawImage"
    /\ pc = "done" =>
          /\ ChartPageKeys = chart_images
          /\ Len(pages) = FixedPages(dialect) + Len(chart_images)

\* A document built from a proper, non-empty subset of the chart images.
C7_Witness ==
    /\ pc = "done"
    /\ chart_images = << "top_vendors", "weekday" >>

\* C8: a failure of the external chart renderer is not propagated: no run
\* ends on the exception of write_image.
C8_RenderFailureNotFatal == crash # "write_image"

C10_UnmappedVendorNotFatal == crash # "top_vendor"


\* ------------------------------------------ helper functions on their own

\* A script's variables while a helper function runs on its own.
NoRun(ds) ==
    /\ dialect \in ds
    /\ pc = "call"
    /\ crash = ""
    /\ df = NoFrame
    /\ export_charts = FALSE
    /\ chart_images = << >>
    /\ ci = 1
    /\ ip = 1
    /\ rowsLeft = -1
    /\ table_len = [s \in {"agencies", "vendors"} |-> 0]
    /\ cursor = height - margin
    /\ page_number = 1
    /\ page = BlankPage
    /\ pages = << >>
    /\ evaluated = {}

NoCluster ==
    /\ vendors = << >>
    /\ vi = 1
    /\ canonical_names = << >>
    /\ name_mapping = {}

\* The sequences over S of length n at most.
RECURSIVE SeqsUpTo(_, _)
SeqsUpTo(S, n) ==
    IF n = 0 THEN { << >> }
    ELSE LET shorter == SeqsUpTo(S, n - 1)
         IN  shorter \cup { Append(q, x) : q \in { r \in shorter : Len(r) = n - 1 }, x \in S }

\* --------------------------------------------------- normalize_vendor_name

\* A name is a string, held as the sequence of its characters, or a value
\* that is no string (None, NaN, a number).  None is returned as NoStr.
Str(cs) == [str |-> TRUE, chars |-> cs]
NoStr == [str |-> FALSE, chars |-> << >>]

Lowers ==
    << "a", "b", "c", "d", "e", "f", "g", "h", "i", "j", "k", "l", "m",
       "n", "o", "p", "q", "r", "s", "t", "u", "v", "w", "x", "y", "z" >>
Uppers ==
    << "A", "B", "C", "D", "E", "F", "G", "H", "I", "J", "K", "L", "M",
       "N", "O", "P", "Q", "R", "S", "T", "U", "V", "W", "X", "Y", "Z" >>
Digits == { "0", "1", "2", "3", "4", "5", "6", "7", "8", "9" }

IsLower(c) == \E i \in 1..Len(Lowers) : Lowers[i] = c
IsUpper(c) == \E i \in 1..Len(Uppers) : Uppers[i] = c
IsLetter(c) == IsLower(c) \/ IsUpper(c)

\* \w and \s of the regular expressions.
IsWord(c) == IsLetter(c) \/ c \in Digits \/ c = "_"
IsSpace(c) == c \in { " ", "\t", "\n" }

LowerChar(c) == IF IsUpper(c) THEN Lowers[CHOOSE i \in 1..Len(Uppers) : Uppers[i] = c] ELSE c
UpperChar(c) == IF IsLower(c) THEN Uppers[CHOOSE i \in 1..Len(Lowers) : Lowers[i] = c] ELSE c

\* name.lower()
lower(s) == [ i \in 1..Len(s) |-> LowerChar(s[i]) ]

\* Where r'\(.*?\)' ends when it is tried at the head of s: the nearest ")"
\* after a leading "(", no line break in between; 0 when it does not match.
ParenEnd(s) ==
    IF s = << >> \/ s[1] # "(" \/ ~\E j \in 2..Len(s) : s[j] = ")" THEN 0
    ELSE LET j == CHOOSE j \in 2..Len(s) : s[j] = ")" /\ \A k \in 2..(j - 1) : s[k] # ")"
         IN  IF \E k \in 2..(j - 1) : s[k] = "\n" THEN 0 ELSE j

\* re.sub(r'\(.*?\)', '', name)
RECURSIVE RemoveParens(_)
RemoveParens(s) ==
    IF s = << >> THEN << >>
    ELSE IF ParenEnd(s) > 0 THEN RemoveParens(SubSeq(s, ParenEnd(s) + 1, Len(s)))
    ELSE << s[1] >> \o RemoveParens(Tail(s))

\* A substitution that removes nothing.
RemoveNothing(s) == s

\* re.sub(r'[^\w\s]', '', name)
RemovePunctuation(s) == SelectSeq(s, LAMBDA c : IsWord(c) \/ IsSpace(c))

\* The alternatives of the two word patterns, in the order written.
suffixes ==
    << << "i", "n", "c" >>, << "l", "l", "c" >>, << "l", "t", "d" >>,
       << "c", "o", "r", "p" >>, << "c", "o" >>,
       << "c", "o", "m", "p", "a", "n", "y" >>,
       << "i", "n", "c", "o", "r", "p", "o", "r", "a", "t", "e", "d" >>,
       << "s", "e", "r", "v", "i", "c", "e", "s" >>,
       << "s", "o", "l", "u", "t", "i", "o", "n", "s" >>,
       << "c", "o", "n", "s", "u", "l", "t", "i", "n", "g" >>,
       << "f", "i", "n", "a", "n", "c", "i", "a", "l" >>,
       << "a", "d", "v", "i", "s", "o", "r", "y" >>,
       << "s", "y", "s", "t", "e", "m", "s" >>, << "g", "r", "o", "u", "p" >>,
       << "h", "o", "l", "d", "i", "n", "g", "s" >>,
       << "p", "a", "r", "t", "n", "e", "r", "s" >>, << "l", "p" >>,
       << "l", "l", "p" >> >>
function_words ==
    << << "t", "h", "e" >>, << "o", "f" >>, << "a", "n", "d" >>, << "f", "o", "r" >>,
       << "i", "n" >>, << "a", "t" >>, << "o", "n" >>, << "b", "y" >>,
       << "w", "i", "t", "h" >>, << "f", "r", "o", "m" >> >>

\* \b before index i of s (i in 1..Len(s)+1).
WordBoundary(s, i) ==
    LET before == i > 1 /\ IsWord(s[i - 1])
        after == i <= Len(s) /\ IsWord(s[i])
    IN  before # after

\* Whether w stands in s at index i, inside a longer word or not.
MatchesInside(s, i, w) ==
    /\ i + Len(w) - 1 <= Len(s)
    /\ SubSeq(s, i, i + Len(w) - 1) = w

\* Whether r'\b(w)\b' matches s at index i.
MatchesAt(s, i, w) ==
    /\ WordBoundary(s, i)
    /\ i + Len(w) - 1 <= Len(s)
    /\ SubSeq(s, i, i + Len(w) - 1) = w
    /\ WordBoundary(s, i + Len(w))

\* re.sub(r'\b(w1|w2|...)\b', '', s) from index i on: at each index the
\* alternatives are tried in order, a match is dropped and the scan goes on
\* behind it, any other character is kept.
RECURSIVE RemoveWords(_, _, _)
RemoveWords(s, i, words) ==
    IF i > Len(s) THEN << >>
    ELSE LET hits == { k \in 1..Len(words) : MatchesAt(s, i, words[k]) }
         IN  IF hits # {}
             THEN LET first == CHOOSE k \in hits : \A h \in hits : k <= h
                  IN  RemoveWords(s, i + Len(words[first]), words)
             ELSE << s[i] >> \o RemoveWords(s, i + 1, words)

\* re.sub(r'\s+', ' ', name)
RECURSIVE CollapseSpaces(_)
CollapseSpaces(s) ==
    IF s = << >> THEN << >>
    ELSE IF IsSpace(s[1])
    THEN IF Len(s) > 1 /\ IsSpace(s[2]) THEN CollapseSpaces(Tail(s))
         ELSE << " " >> \o CollapseSpaces(Tail(s))
    ELSE << s[1] >> \o CollapseSpaces(Tail(s))

\* name.strip()
RECURSIVE strip(_)
strip(s) ==
    IF s = << >> THEN << >>
    ELSE IF IsSpace(s[1]) THEN strip(Tail(s))
    ELSE IF IsSpace(s[Len(s)]) THEN strip(SubSeq(s, 1, Len(s) - 1))
    ELSE s

\* name.split()[0] of a string that holds a character other than whitespace.
RECURSIVE FirstToken(_)
FirstToken(s) ==
    IF s = << >> THEN << >>
    ELSE IF IsSpace(s[1]) THEN FirstToken(Tail(s))
    ELSE IF Len(s) = 1 \/ IsSpace(s[2]) THEN << s[1] >>
    ELSE << s[1] >> \o FirstToken(Tail(s))

\* str.title(): a letter is upper-cased when the character before it is no
\* letter, lower-cased otherwise; other characters stay.
title(s) ==
    [ i \in 1..Len(s) |->
        IF i > 1 /\ IsLetter(s[i - 1]) THEN LowerChar(s[i]) ELSE UpperChar(s[i]) ]

\* The guard of normalize_vendor_name: pd.isna(name), no string, or
\* name.strip() == "".
Blank(name) == ~name.str \/ strip(name.chars) = << >>

\* The name after the substitutions and the strip.
Cleaned(cs) ==
    strip(CollapseSpaces(
        RemoveWords(
            RemoveWords(RemovePunctuation(RemoveParens(lower(cs))), 1, suffixes),
            1, function_words)))

normalize_vendor_name(name) ==
    IF Blank(name) THEN NoStr
    ELSE IF Cleaned(name.chars) = << >> THEN NoStr
    ELSE Str(title(FirstToken(Cleaned(name.chars))))

\* The characters the names checked are made of, and the longest of them.
Alphabet == { "c", "o", "n", "I", "3", " ", "(", ")", ",", "_" }
MaxLen == 4

\* Two longer names that share their first word.
AcmeGroup ==
    << "A", "c", "m", "e", " ", "C", "o", "n", "s", "u", "l", "t", "i", "n", "g", " ",
       "G", "r", "o", "u", "p", ",", " ", "L", "L", "C" >>
AcmeSolutions ==
    << "A", "c", "m", "e", " ", "S", "o", "l", "u", "t", "i", "o", "n", "s", " ",
       "I", "n", "c", "." >>

Names ==
    { Str(cs) : cs \in SeqsUpTo(Alphabet, MaxLen) \cup { AcmeGroup, AcmeSolutions } }
        \cup { NoStr }

NormalizeInit ==
    /\ NoRun({ "export" })
    /\ NoCluster
    /\ call = "normalize_vendor_name"
    /\ arg \in Names
    /\ ret = << >>

Normalize ==
    /\ call = "normalize_vendor_name"
    /\ ret' = normalize_vendor_name(arg)
    /\ call' = "returned"
    /\ UNCHANGED << rvars, arg, vendors, vi, canonical_names, name_mapping >>

NormalizeNext == Normalize

NormalizeSpec == NormalizeInit /\ [][NormalizeNext]_vars

\* --------------------------------------------------- build_vendor_clusters

\* The length of a longest common subsequence of a and b.
RECURSIVE LCS(_, _)
LCS(a, b) ==
    IF a = << >> \/ b = << >> THEN 0
    ELSE IF a[1] = b[1] THEN 1 + LCS(Tail(a), Tail(b))
    ELSE LET x == LCS(Tail(a), b)
             y == LCS(a, Tail(b))
         IN  IF x >= y THEN x ELSE y

\* round(): to the nearest integer, a half to the even one.
RoundDiv(p, q) ==
    LET d == p \div q
        r == p % q
    IN  IF 2 * r > q \/ (2 * r = q /\ d % 2 = 1) THEN d + 1 ELSE d

\* fuzz.ratio(a, b) of two tokens: 2 * matches / (len(a) + len(b)), as a
\* rounded percentage.
ratio(a, b) == RoundDiv(200 * LCS(a.chars, b.chars), Len(a.chars) + Len(b.chars))

\* An assignment of the name's own token, whatever the scan found.
AssignOwnToken(m, k, v) == { q \in m : q[1] # k } \cup { << k, normalize_vendor_name(k) >> }

\* An assignment that moves every earlier key to the new value.
AssignMerging(m, k, v) == { << q[1], v >> : q \in m } \cup { << k, v >> }

\* An assignment that is lost.
AssignNothing(m, k, v) == m

\* name_mapping[k] = v
Assign(m, k, v) == { q \in m : q[1] # k } \cup { << k, v >> }

\* An inner loop that never finds a match.
NeverMatch(canon, cleaned, threshold) == 0

\* The canonical name that scores highest against cleaned, when one scores
\* threshold or more.
BestMatch(canon, cleaned, threshold) ==
    LET hits == { k \in 1..Len(canon) : ratio(cleaned, canon[k]) >= threshold }
    IN  IF hits = {} THEN 0
        ELSE CHOOSE k \in hits :
                \A h \in hits : /\ ratio(cleaned, canon[k]) >= ratio(cleaned, canon[h])
                                /\ (ratio(cleaned, canon[k]) = ratio(cleaned, canon[h]) => k >= h)

\* The first canonical name that scores threshold or more against cleaned;
\* 0 when the inner loop ends without a match.
FirstMatch(canon, cleaned, threshold) ==
    LET hits == { k \in 1..Len(canon) : ratio(cleaned, canon[k]) >= threshold }
    IN  IF hits = {} THEN 0 ELSE CHOOSE k \in hits : \A h \in hits : k <= h

threshold_default == 90
Thresholds == { 0, 40, threshold_default }

a_b == << "a", "b" >>
a_b_co == << "a", "b", " ", "c", "o" >>
c_d == << "c", "d" >>
c_d_b == << "c", "d", "b" >>
c_o == << "c", "o" >>

\* The raw names the runs are built from: two that share a token, one whose
\* token is nearer to a later canonical name than to the first it matches,
\* one that normalizes to None, and a value that is no string.
RawNames == { Str(a_b), Str(a_b_co), Str(c_d), Str(c_d_b), Str(c_o), NoStr }

MaxVendors == 3

\* A run of build_vendor_clusters.  arg holds the threshold and whether the
\* name fuzz is bound where the function runs: the legacy script, which
\* defines the function, does not import fuzzywuzzy; its two siblings do.
ClusterInit ==
    /\ NoRun({ "legacy" })
    /\ call = "build_vendor_clusters"
    /\ arg \in [ threshold : Thresholds, fuzz : BOOLEAN ]
    /\ ret = << >>
    /\ vendors \in SeqsUpTo(RawNames, MaxVendors)
    /\ vi = 1
    /\ canonical_names = << >>
    /\ name_mapping = {}

\* One iteration of `for vendor in vendors`.
ClusterStep ==
    /\ call = "build_vendor_clusters"
    /\ vi <= Len(vendors)
    /\ LET vendor == vendors[vi]
           cleaned == normalize_vendor_name(vendor)
           found == FirstMatch(canonical_names, cleaned, arg.threshold)
       IN  IF ~cleaned.str
           THEN /\ vi' = vi + 1
                /\ UNCHANGED << call, ret, canonical_names, name_mapping >>
           ELSE IF canonical_names # << >> /\ ~arg.fuzz
           THEN /\ call' = "raised"
                /\ ret' = "NameError"
                /\ UNCHANGED << vi, canonical_names, name_mapping >>
           ELSE IF found > 0
           THEN /\ name_mapping' = Assign(name_mapping, vendor, canonical_names[found])
                /\ vi' = vi + 1
                /\ UNCHANGED << call, ret, canonical_names >>
           ELSE /\ canonical_names' = Append(canonical_names, cleaned)
                /\ name_mapping' = Assign(name_mapping, vendor, cleaned)
                /\ vi' = vi + 1
                /\ UNCHANGED << call, ret >>
    /\ UNCHANGED << rvars, arg, vendors >>

\* return name_mapping
ClusterReturn ==
    /\ call = "build_vendor_clusters"
    /\ vi > Len(vendors)
    /\ call' = "returned"
    /\ ret' = name_mapping
    /\ UNCHANGED << rvars, arg, vendors, vi, canonical_names, name_mapping >>

ClusterNext == ClusterStep \/ ClusterReturn

ClusterSpec == ClusterInit /\ [][ClusterNext]_vars

\* The mapping a run of build_vendor_clusters over vs returns when it can
\* score (fuzz bound), from the canonical names and the mapping so far.
RECURSIVE ClusterRun(_, _, _, _)
ClusterRun(vs, canon, m, threshold) ==
    IF vs = << >> THEN m
    ELSE LET cleaned == normalize_vendor_name(vs[1])
             found == FirstMatch(canon, cleaned, threshold)
         IN  IF ~cleaned.str THEN ClusterRun(Tail(vs), canon, m, threshold)
             ELSE IF found > 0
             THEN ClusterRun(Tail(vs), canon, Assign(m, vs[1], canon[found]), threshold)
             ELSE ClusterRun(Tail(vs), Append(canon, cleaned), Assign(m, vs[1], cleaned), threshold)

\* ------------------------------------------------ the loaders, on their own

\* A cell of a fetched record: absent or null, a number, or a text.
Null == [k |-> "null", n |-> 0, s |-> ""]
Num(n) == [k |-> "num", n |-> n, s |-> ""]
Text(s) == [k |-> "text", n |-> 0, s |-> s]

\* A cell of the frame: a value, or NaN / NaT.
NaN == [nan |-> TRUE, n |-> 0]
Val(n) == [nan |-> FALSE, n |-> n]

\* The texts the fetched cells are drawn from, and what pandas reads in them.
AmountTexts == { "7", "n/a" }
DateTexts == { "2025-03-01", "soon" }
ParseNumber == [ s \in { "7" } |-> 7 ]
ParseDate == [ s \in { "2025-03-01" } |-> 20250301 ]

\* pd.to_numeric(x, errors="coerce"), cell by cell.
to_numeric(x) ==
    IF x.k = "num" THEN Val(x.n)
    ELSE IF x.k = "text" /\ x.s \in DOMAIN ParseNumber THEN Val(ParseNumber[x.s])
    ELSE NaN

\* Whether pd.to_datetime can read the cell; a null reads as NaT.
Readable(x) == x.k = "null" \/ (x.k = "text" /\ x.s \in DOMAIN ParseDate)

\* pd.to_datetime(x, errors="coerce"), cell by cell.
to_datetime(x) ==
    IF x.k = "text" /\ x.s \in DOMAIN ParseDate THEN Val(ParseDate[x.s]) ELSE NaN

\* Only the grants loader passes errors="coerce" to pd.to_datetime.
CoercesDates(d) == d = "grants"

\* get_contract_savings / get_grant_savings after the fetch: the frame built
\* from the records fetched, or the exception raised on the way.
get_savings(d, records) ==
    IF records = << >>
    THEN [raised |-> "KeyError", rows |-> << >>]
    ELSE IF ~CoercesDates(d) /\ \E i \in 1..Len(records) : ~Readable(records[i].deleted_date)
    THEN [raised |-> "ValueError", rows |-> << >>]
    ELSE [raised |-> "",
          rows |-> [ i \in 1..Len(records) |->
                       [ agency |-> records[i].agency,
                         deleted_date |-> to_datetime(records[i].deleted_date),
                         savings |-> to_numeric(records[i].savings) ] ] ]

MaxRecords == 2

RawAmounts == { Null, Num(5), Num(-3) } \cup { Text(s) : s \in AmountTexts }
RawDates == { Null } \cup { Text(s) : s \in DateTexts }
RawRecords == [ agency : { "DoD" }, deleted_date : RawDates, savings : RawAmounts ]

IngestInit ==
    /\ NoRun(Dialects)
    /\ NoCluster
    /\ call = "get_savings"
    /\ arg \in SeqsUpTo(RawRecords, MaxRecords)
    /\ ret = << >>

GetSavings ==
    /\ call = "get_savings"
    /\ ret' = get_savings(dialect, arg)
    /\ call' = "returned"
    /\ UNCHANGED << rvars, arg, vendors, vi, canonical_names, name_mapping >>

IngestNext == GetSavings

IngestSpec == IngestInit /\ [][IngestNext]_vars

\* C11: ingesting records never raises because of a missing or malformed
\* amount or date: the loader returns a frame that keeps every record, with
\* the bad amount read as NaN and the bad date as NaT, in every script.
C11_BadFieldsCoerced ==
    (call = "returned" /\ arg # << >>) =>
        /\ ret.raised = ""
        /\ Len(ret.rows) = Len(arg)
        /\ \A i \in 1..Len(arg) :
              /\ ret.rows[i].savings.nan <=> (to_numeric(arg[i].savings) = NaN)
              /\ ret.rows[i].deleted_date.nan <=> ~(arg[i].deleted_date.k = "text"
                                                    /\ arg[i].deleted_date.s \in DOMAIN ParseDate)

\* ------------------------------------------------------------ aggregation

ChartN == 10

\* The key and savings columns a groupby reads: agency (0 is a null agency)
\* or vendor_normalized (None is a null key).
AgencyColumn(rows) ==
    [ i \in 1..Len(rows) |->
        [ null |-> rows[i].agency = 0, key |-> rows[i].agency, savings |-> rows[i].savings ] ]

\* df["vendor_normalized"] = df["vendor"].apply(normalize_vendor_name)
vendor_normalized(rows) == [ i \in 1..Len(rows) |-> normalize_vendor_name(rows[i].vendor) ]

VendorColumn(rows) ==
    [ i \in 1..Len(rows) |->
        [ null |-> ~vendor_normalized(rows)[i].str, key |-> vendor_normalized(rows)[i],
          savings |-> rows[i].savings ] ]

\* The keys of the groups, in the order they first appear; rows with a null
\* key are in no group.
RECURSIVE GroupKeys(_)
GroupKeys(col) ==
    IF col = << >> THEN << >>
    ELSE LET before == GroupKeys(SubSeq(col, 1, Len(col) - 1))
             last == col[Len(col)]
         IN  IF last.null \/ \E k \in 1..Len(before) : before[k] = last.key
             THEN before ELSE Append(before, last.key)

\* .sum() of one group: NaN cells are skipped.
RECURSIVE GroupSum(_, _)
GroupSum(col, key) ==
    IF col = << >> THEN 0
    ELSE (IF ~col[1].null /\ col[1].key = key /\ ~col[1].savings.nan THEN col[1].savings.n ELSE 0)
            + GroupSum(Tail(col), key)

\* df.groupby(key)["savings"].sum()
groupby_sum(col) ==
    [ k \in 1..Len(GroupKeys(col)) |->
        [ key |-> GroupKeys(col)[k], savings |-> GroupSum(col, GroupKeys(col)[k]) ] ]

\* One entry put into a list in descending order, behind the entries that
\* are not smaller.
RECURSIVE InsertDescending(_, _)
InsertDescending(sorted, e) ==
    IF sorted = << >> THEN << e >>
    ELSE IF sorted[1].savings >= e.savings
    THEN << sorted[1] >> \o InsertDescending(Tail(sorted), e)
    ELSE << e >> \o sorted

\* The groups left in the order groupby gives them.
unsorted(groups) == groups

\* .sort_values(ascending=False)
RECURSIVE sort_values(_)
sort_values(groups) ==
    IF groups = << >> THEN << >>
    ELSE InsertDescending(sort_values(SubSeq(groups, 1, Len(groups) - 1)), groups[Len(groups)])

\* .head(n)
head(ranked, n) == SubSeq(ranked, 1, Min(n, Len(ranked)))

\* The ranked table of the report: the legacy script keeps every group, the
\* export and grants scripts the first 20.
RankedTable(d, col) ==
    IF d = "legacy" THEN sort_values(groupby_sum(col))
    ELSE head(sort_values(groupby_sum(col)), TopN)

\* The groups a Top 10 chart shows.
ChartData(col) == head(sort_values(groupby_sum(col)), ChartN)

\* ranked["savings"].sum()
RECURSIVE SumOf(_)
SumOf(ranked) == IF ranked = << >> THEN 0 ELSE ranked[1].savings + SumOf(Tail(ranked))

MaxAgencies == 22
MaxSeed == 3
MaxExtra == 2
MaxVendorRows == 2

\* The savings of the one row agency i has to start with, under seed k:
\* negative, zero and equal amounts all occur.
Amount(i, k) == ((i * k) % 7) - 1

\* A frame with one row for each of g agencies.
BaseRows(g, k) ==
    [ i \in 1..g |-> [ agency |-> i, vendor |-> NoStr, savings |-> Val(Amount(i, k)) ] ]

\* Further rows: of a null agency, or of an agency that has a row already,
\* with and without an amount.
ExtraRows == [ agency : { 0, 1, 2 }, vendor : { NoStr }, savings : { Val(4), NaN } ]

AgencyFrames ==
    { BaseRows(g, k) \o e :
        g \in 0..MaxAgencies, k \in 1..MaxSeed, e \in SeqsUpTo(ExtraRows, MaxExtra) }

a_e == << "a", "b", "c", "d", "e" >>
a_ee == << "a", "b", "c", "d", "e", "e" >>

\* Rows of one agency whose vendors share a token, have tokens that score 91
\* against each other, or have no token.
VendorRows ==
    [ agency : { 1 },
      vendor : { Str(a_e), Str(a_ee), Str(a_b), Str(a_b_co), Str(c_o), NoStr },
      savings : { Val(5), NaN } ]

VendorFrames == SeqsUpTo(VendorRows, MaxVendorRows)

AggregateInit ==
    /\ NoRun(Dialects)
    /\ NoCluster
    /\ call = "aggregate"
    /\ arg \in AgencyFrames \cup VendorFrames
    /\ ret = << >>

\* The grouped tables a script computes from the frame.  The grants frame
\* has no vendor column.
RankTables ==
    /\ call = "aggregate"
    /\ ret' = [ vendor_normalized |->
                    IF dialect = "grants" THEN << >> ELSE vendor_normalized(arg),
                top_agencies |-> RankedTable(dialect, AgencyColumn(arg)),
                agency_data |-> ChartData(AgencyColumn(arg)),
                top_vendors |->
                    IF dialect = "grants" THEN << >>
                    ELSE RankedTable(dialect, VendorColumn(arg)),
                vendor_data |->
                    IF dialect = "grants" THEN << >> ELSE ChartData(VendorColumn(arg)) ]
    /\ call' = "ranked"
    /\ UNCHANGED << rvars, arg, vendors, vi, canonical_names, name_mapping >>

\* The totals of the chart_insights bullets of the export and grants
\* scripts; iloc[0] of an empty table raises.
ChartInsights ==
    /\ call = "ranked"
    /\ dialect # "legacy"
    /\ IF ret.top_agencies = << >> \/ (dialect = "export" /\ ret.top_vendors = << >>)
       THEN call' = "raised" /\ ret' = ret
       ELSE /\ call' = "insights"
            /\ ret' = [ tables |-> ret,
                        top10_agencies |-> SumOf(ret.top_agencies),
                        top10_vendors |-> SumOf(ret.top_vendors) ]
    /\ UNCHANGED << rvars, arg, vendors, vi, canonical_names, name_mapping >>

AggregateNext == RankTables \/ ChartInsights

AggregateSpec == AggregateInit /\ [][AggregateNext]_vars

\* ------------------------------------------- the layout functions, called

MaxCalls == 4
MaxLines == 30

\* The globals the layout functions share.
Layout == [ cursor |-> cursor, page_number |-> page_number, page |-> page, pages |-> pages ]

\* A paragraph writer that breaks the page once it has passed the margin.
after_paginating_paragraph(L, n) ==
    LET r == draw_paragraph(L.page, "body", "line", L.cursor, n)
    IN  IF r.cursor < margin
        THEN [ cursor |-> reset_cursor, page_number |-> NextPageNumber(L.page_number),
               page |-> BlankPage,
               pages |-> Append(L.pages, StampFooter(r.page, "body", L.page_number)) ]
        ELSE [ L EXCEPT !.page = r.page, !.cursor = r.cursor ]

\* The globals after draw_paragraph(text), text of n lines.
after_draw_paragraph(L, n) ==
    LET r == draw_paragraph(L.page, "body", "line", L.cursor, n)
    IN  [ L EXCEPT !.page = r.page, !.cursor = r.cursor ]

\* The globals after draw_footer().
after_draw_footer(L) ==
    [ L EXCEPT !.page = StampFooter(L.page, "body", L.page_number),
               !.page_number = NextPageNumber(L.page_number) ]

\* The globals after reset_cursor().
after_reset_cursor(L) == [ L EXCEPT !.cursor = reset_cursor ]

\* The canvas after c.showPage().
after_showPage(L) == [ L EXCEPT !.pages = Append(L.pages, L.page), !.page = BlankPage ]

\* The layout functions are called in any order, ip counting the calls.
LayoutInit ==
    /\ NoRun(Dialects)
    /\ NoCluster
    /\ call = "canvas"
    /\ arg = 0
    /\ ret = << >>

\* Another call can be made.
CanCall ==
    /\ pc = "call"
    /\ call \in { "canvas", "draw_paragraph", "draw_footer", "reset_cursor", "showPage" }
    /\ ip <= MaxCalls

CallDrawParagraph ==
    /\ CanCall
    /\ \E n \in { 1, MaxLines \div 2, MaxLines } :
          LET L == after_draw_paragraph(Layout, n)
          IN  /\ arg' = n
              /\ cursor' = L.cursor
              /\ page_number' = L.page_number
              /\ page' = L.page
              /\ pages' = L.pages
    /\ call' = "draw_paragraph"
    /\ ip' = ip + 1
    /\ UNCHANGED << dialect, pc, crash, df, export_charts, chart_images, ci, rowsLeft,
                    table_len, evaluated, ret, vendors, vi, canonical_names, name_mapping >>

CallDrawFooter ==
    /\ CanCall
    /\ LET L == after_draw_footer(Layout)
       IN  /\ cursor' = L.cursor
           /\ page_number' = L.page_number
           /\ page' = L.page
           /\ pages' = L.pages
    /\ arg' = 0
    /\ call' = "draw_footer"
    /\ ip' = ip + 1
    /\ UNCHANGED << dialect, pc, crash, df, export_charts, chart_images, ci, rowsLeft,
                    table_len, evaluated, ret, vendors, vi, canonical_names, name_mapping >>

CallResetCursor ==
    /\ CanCall
    /\ LET L == after_reset_cursor(Layout)
       IN  /\ cursor' = L.cursor
           /\ page_number' = L.page_number
           /\ page' = L.page
           /\ pages' = L.pages
    /\ arg' = 0
    /\ call' = "reset_cursor"
    /\ ip' = ip + 1
    /\ UNCHANGED << dialect, pc, crash, df, export_charts, chart_images, ci, rowsLeft,
                    table_len, evaluated, ret, vendors, vi, canonical_names, name_mapping >>

CallShowPage ==
    /\ CanCall
    /\ LET L == after_showPage(Layout)
       IN  /\ cursor' = L.cursor
           /\ page_number' = L.page_number
           /\ page' = L.page
           /\ pages' = L.pages
    /\ arg' = 0
    /\ call' = "showPage"
    /\ ip' = ip + 1
    /\ UNCHANGED << dialect, pc, crash, df, export_charts, chart_images, ci, rowsLeft,
                    table_len, evaluated, ret, vendors, vi, canonical_names, name_mapping >>

LayoutNext == CallDrawParagraph \/ CallDrawFooter \/ CallResetCursor \/ CallShowPage

LayoutSpec == LayoutInit /\ [][LayoutNext]_vars

\* ------------------------------------------------- reading the clustering

Keys(m) == { q[1] : q \in m }
ValuesOf(m, k) == { q[2] : q \in { r \in m : r[1] = k } }
Canonicals == { canonical_names[k] : k \in 1..Len(canonical_names) }
Processed == { vendors[i] : i \in 1..(vi - 1) }

\* C12 as stated: after a clustering run every non-empty raw vendor string
\* of the input is a key of the mapping returned, with exactly one value.
C12_TotalOnNonEmpty ==
    call = "returned" =>
        \A i \in 1..Len(vendors) :
            (vendors[i].str /\ vendors[i].chars # << >>) =>
                Cardinality(ValuesOf(ret, vendors[i])) = 1

\* C12: at every point of a clustering run, a raw name processed so far is
\* a key of the mapping exactly when it normalizes to a token, and a key has
\* exactly one value, which is a token of the canonical list; the mapping
\* returned is that mapping.
C12_MappedIffNormalizes ==
    /\ \A v \in Processed :
          IF normalize_vendor_name(v).str
          THEN /\ Cardinality(ValuesOf(name_mapping, v)) = 1
               /\ \A c \in ValuesOf(name_mapping, v) : c.str /\ c \in Canonicals
          ELSE v \notin Keys(name_mapping)
    /\ Keys(name_mapping) \subseteq Processed
    /\ call = "returned" => ret = name_mapping

\* A run that returned a mapping with a key and left out a non-empty name.
C12_Witness ==
    /\ call = "returned"
    /\ ret # {}
    /\ \E i \in 1..Len(vendors) :
          vendors[i].str /\ vendors[i].chars # << >> /\ vendors[i] \notin Keys(ret)

\* The name an iteration has just been through, and its token.
Vendor == vendors[vi]
Token == normalize_vendor_name(Vendor)
Reaches(k) == ratio(Token, canonical_names[k]) >= arg.threshold

\* C13: an iteration that assigns a name gives it the earliest canonical
\* token that scores the threshold or more against the name's token,
\* whatever the later ones score, and leaves the canonical list alone; only
\* when no canonical token reaches the threshold is the name's own token
\* appended to the list and assigned.
C13_FirstMatchWins ==
    [][ (call = "build_vendor_clusters" /\ vi' = vi + 1 /\ Token.str) =>
            IF \E k \in 1..Len(canonical_names) : Reaches(k)
            THEN /\ canonical_names' = canonical_names
                 /\ \E k \in 1..Len(canonical_names) :
                       /\ Reaches(k)
                       /\ \A j \in 1..(k - 1) : ~Reaches(j)
                       /\ ValuesOf(name_mapping', Vendor) = { canonical_names[k] }
            ELSE /\ canonical_names' = Append(canonical_names, Token)
                 /\ ValuesOf(name_mapping', Vendor) = { Token } ]_vars

\* A name was assigned the first canonical token that reaches the threshold
\* although a later one scores higher, and another name became canonical.
C13_Witness ==
    /\ call = "build_vendor_clusters"
    /\ Len(canonical_names) >= 2
    /\ \E v \in Keys(name_mapping) :
          \E k \in 1..Len(canonical_names) :
              /\ ValuesOf(name_mapping, v) = { canonical_names[k] }
              /\ normalize_vendor_name(v) # canonical_names[k]
              /\ \E j \in (k + 1)..Len(canonical_names) :
                    ratio(normalize_vendor_name(v), canonical_names[j])
                        > ratio(normalize_vendor_name(v), canonical_names[k])

\* C14: in a clustering run every step leaves the canonical list as it is or
\* appends one token to it, and leaves every key the mapping already has
\* with the value it has, also when the name processed is a key already.
C14_AppendOnly ==
    [][ /\ Len(canonical_names') \in { Len(canonical_names), Len(canonical_names) + 1 }
        /\ SubSeq(canonical_names', 1, Len(canonical_names)) = canonical_names
        /\ \A k \in Keys(name_mapping) :
              ValuesOf(name_mapping', k) = ValuesOf(name_mapping, k) ]_vars

\* A raw name was processed a second time after another name had become
\* canonical in between.
C14_Witness ==
    /\ call = "build_vendor_clusters"
    /\ Len(canonical_names) >= 2
    /\ \E i \in 1..(vi - 1) : \E j \in (i + 2)..(vi - 1) :
          /\ vendors[i] = vendors[j]
          /\ vendors[i] \in Keys(name_mapping)
          /\ normalize_vendor_name(vendors[i + 1]) = canonical_names[2]

\* ------------------------------------------------ reading the aggregation

\* The canonical identity the clusterer gives each row's vendor, run over
\* the vendor column with the default threshold.
Clustered == ClusterRun([ i \in 1..Len(arg) |-> arg[i].vendor ], << >>, {}, threshold_default)

\* C15: the key a record is grouped under for the vendor tables is the
\* canonical identity the clusterer gives its raw vendor name (no key when
\* it gives none), so that two records whose tokens score 90 or more
\* against each other share a group.
C15_GroupedByCanonical ==
    (call = "ranked" /\ dialect # "grants") =>
        \A i \in 1..Len(arg) :
            IF arg[i].vendor \in Keys(Clustered)
            THEN ValuesOf(Clustered, arg[i].vendor) = { ret.vendor_normalized[i] }
            ELSE ~ret.vendor_normalized[i].str

\* ---------------------------------------------- reading the normalization

\* C16 as stated: a non-empty string that holds no letter, only punctuation
\* and whitespace, the underscore counted as punctuation, normalizes to None.
C16_NoLettersGivesNone ==
    (call = "returned" /\ arg.str /\ arg.chars # << >>
        /\ \A i \in 1..Len(arg.chars) :
              ~IsLetter(arg.chars[i]) /\ arg.chars[i] \notin Digits) =>
        ret = NoStr

\* C16: a non-empty string that holds no word character (no letter, digit or
\* underscore), only other punctuation and whitespace, normalizes to None.
C16_NoWordCharsGivesNone ==
    (call = "returned" /\ arg.str /\ arg.chars # << >>
        /\ \A i \in 1..Len(arg.chars) : ~IsWord(arg.chars[i])) =>
        ret = NoStr

\* A name made of punctuation and whitespace, some of each, was normalized.
C16_Witness ==
    /\ call = "returned"
    /\ arg.str
    /\ \A i \in 1..Len(arg.chars) : ~IsWord(arg.chars[i])
    /\ \E i \in 1..Len(arg.chars) : arg.chars[i] = ","
    /\ \E i \in 1..Len(arg.chars) : IsSpace(arg.chars[i])
    /\ ret = NoStr

\* The whitespace-delimited tokens of s, in order.
RECURSIVE Tokens(_)
Tokens(s) ==
    IF s = << >> THEN << >>
    ELSE IF IsSpace(s[Len(s)]) THEN Tokens(SubSeq(s, 1, Len(s) - 1))
    ELSE LET starts == { i \in 1..Len(s) : \A j \in i..Len(s) : ~IsSpace(s[j]) }
             st == CHOOSE i \in starts : \A j \in starts : i <= j
         IN  Append(Tokens(SubSeq(s, 1, st - 1)), SubSeq(s, st, Len(s)))

StopWords ==
    { suffixes[k] : k \in 1..Len(suffixes) } \cup { function_words[k] : k \in 1..Len(function_words) }

\* What is left of a string's tokens once it is lower-cased and rid of
\* parenthesized substrings and punctuation, and the stop words are dropped.
KeptTokens(cs) ==
    SelectSeq(Tokens(RemovePunctuation(RemoveParens(lower(cs)))), LAMBDA w : w \notin StopWords)

Acme == << "A", "c", "m", "e" >>

\* C17: normalize returns None for a value that is no string and for an
\* empty or all-whitespace string; for any other string it returns the
\* title-cased first token left after lower-casing, removing parenthesized
\* substrings and punctuation and dropping every token that is a corporate
\* suffix or a function word, None when no token is left; both Acme names
\* give Acme.
C17_FirstKeptToken ==
    call = "returned" =>
        /\ IF ~arg.str \/ \A i \in 1..Len(arg.chars) : IsSpace(arg.chars[i])
           THEN ret = NoStr
           ELSE IF KeptTokens(arg.chars) = << >> THEN ret = NoStr
           ELSE ret = Str(title(KeptTokens(arg.chars)[1]))
        /\ arg \in { Str(AcmeGroup), Str(AcmeSolutions) } => ret = Str(Acme)

\* A name lost a suffix or function word ahead of the token returned.
C17_Witness ==
    /\ call = "returned"
    /\ arg.str
    /\ ret.str
    /\ Len(arg.chars) <= MaxLen
    /\ \E k \in 1..Len(arg.chars) :
          /\ SubSeq(lower(arg.chars), 1, k) \in StopWords
          /\ k < Len(arg.chars) /\ IsSpace(arg.chars[k + 1])

\* The agencies of the frame, and the sum of the amounts agency a has.
Agencies == { arg[i].agency : i \in 1..Len(arg) } \ { 0 }

RECURSIVE SumOver(_)
SumOver(idx) ==
    IF idx = {} THEN 0
    ELSE LET i == CHOOSE j \in idx : TRUE
         IN  arg[i].savings.n + SumOver(idx \ { i })

AgencyTotal(a) == SumOver({ i \in 1..Len(arg) : arg[i].agency = a /\ ~arg[i].savings.nan })

\* C18: the ranked agency table has one entry per agency, worth the sum of
\* that agency's numeric amounts, in non-increasing order; it holds the
\* min(N, groups) largest groups (N is 20 in the export and grants scripts;
\* the legacy script keeps every group).
C18_RankedBySum ==
    call = "ranked" =>
        LET T == ret.top_agencies
        IN  /\ \A i \in 1..Len(T) : T[i].key \in Agencies /\ T[i].savings = AgencyTotal(T[i].key)
            /\ \A i \in 1..Len(T) : \A j \in (i + 1)..Len(T) :
                  T[i].key # T[j].key /\ T[i].savings >= T[j].savings
            /\ Len(T) = IF dialect = "legacy" THEN Cardinality(Agencies)
                        ELSE Min(TopN, Cardinality(Agencies))
            /\ \A a \in Agencies :
                  (\A i \in 1..Len(T) : T[i].key # a) => AgencyTotal(a) <= T[Len(T)].savings

\* More than N agencies, one of them with a second amount and one with a
\* row without amount, were ranked and cut to N rows of unequal sums.
C18_Witness ==
    /\ call = "ranked"
    /\ dialect = "export"
    /\ Cardinality(Agencies) > TopN
    /\ Len(ret.top_agencies) = TopN
    /\ ret.top_agencies[1].savings > ret.top_agencies[TopN].savings
    /\ \E i \in 1..Len(arg) : arg[i].savings.nan /\ arg[i].agency # 0
    /\ \E i \in 1..Len(arg) : \E j \in (i + 1)..Len(arg) :
          arg[i].agency = arg[j].agency /\ ~arg[j].savings.nan /\ arg[j].agency # 0

\* C20: the total the chart page reports for the Top 10 agencies, and for
\* the Top 10 vendors, is the sum of the groups the Top 10 chart shows, the
\* ten highest group totals, however many groups there are.
C20_Top10TotalIsChartSum ==
    call = "insights" =>
        /\ ret.top10_agencies = SumOf(ret.tables.agency_data)
        /\ dialect = "export" => ret.top10_vendors = SumOf(ret.tables.vendor_data)

\* -------------------------------------------- reading the layout functions

\* C19: a call of draw_paragraph with a text of n lines lowers the cursor by
\* n line heights and leaves the page counter, the pages closed and the
\* footers of the open page as they are, wherever the cursor stands; a call
\* of draw_footer leaves the cursor where it is; a call of reset_cursor
\* leaves the page counter as it is.
C19_FrameOfLayoutCalls ==
    [][ /\ call' = "draw_paragraph" =>
              /\ cursor' = cursor - arg' * line_height
              /\ page_number' = page_number
              /\ pages' = pages
              /\ page'.stamps = page.stamps
              /\ page'.writes = page.writes + arg'
        /\ call' = "draw_footer" => cursor' = cursor
        /\ call' = "reset_cursor" => page_number' = page_number ]_vars

\* A paragraph was written with lines below the bottom margin: the page is
\* still open, without footer, and the cursor was not reset.
C19_Witness ==
    /\ call = "draw_paragraph"
    /\ cursor < margin
    /\ page.low < margin
    /\ page.stamps = << >>
    /\ pages = << >>
    /\ page_number = 1

\* C21: at every point of a clustering run with a threshold from 0 to 100,
\* each canonical token scores below the threshold against every canonical
\* token created before it; so no token is in the list twice, and with
\* threshold 0 the list never holds more than one token.
C21_CanonicalsApart ==
    /\ \A k \in 1..Len(canonical_names) : \A j \in 1..(k - 1) :
          /\ ratio(canonical_names[k], canonical_names[j]) < arg.threshold
          /\ canonical_names[k] # canonical_names[j]
    /\ arg.threshold = 0 => Len(canonical_names) <= 1

\* Every name of a longest run has a token and was processed, and the run
\* left two canonical tokens, one of them matched by another name.
C21_Witness ==
    /\ call = "build_vendor_clusters"
    /\ vi > MaxVendors
    /\ Len(canonical_names) = 2
    /\ Cardinality(Keys(name_mapping)) = MaxVendors

\* C22: at every point of a clustering run every key of the mapping
\* normalizes to a token, every value is in the canonical list, every
\* canonical token is the token of a key that maps to it, and each key's
\* token equals its value or scores the threshold or more against it.
C22_MappingAndListAgree ==
    /\ \A q \in name_mapping :
          /\ normalize_vendor_name(q[1]).str
          /\ q[2] \in Canonicals
          /\ \/ normalize_vendor_name(q[1]) = q[2]
             \/ ratio(normalize_vendor_name(q[1]), q[2]) >= arg.threshold
    /\ \A c \in Canonicals :
          \E q \in name_mapping : q[2] = c /\ normalize_vendor_name(q[1]) = c

\* A key whose token is not its value maps to the first of two canonical
\* tokens.
C22_Witness ==
    /\ call = "build_vendor_clusters"
    /\ Len(canonical_names) = 2
    /\ \E q \in name_mapping :
          q[2] = canonical_names[1] /\ normalize_vendor_name(q[1]) # q[2]

====
